---- MODULE Spec2Model ----
(***************************************************************************)
(* Call-session orchestration of the voice agent backend: the CallSession  *)
(* table, the session service (create / lookup / status update /           *)
(* transcript append) and the webhook handlers that drive it.              *)
(*                                                                         *)
(* Every request gets its own ORM session (get_db), so a handler works on  *)
(* its own loaded copy of a row and the table is shared.  Handlers of      *)
(* different worker processes interleave at the granularity of database    *)
(* statements.  The ORM is modelled as the source reads: a query returns   *)
(* the already loaded object of the request unchanged (identity map), an   *)
(* in-place change of a column of the loaded object is written by the next *)
(* commit (that column only), and refresh reloads the row.                 *)
(*                                                                         *)
(* Time is counted in half seconds, so that the truncation of a duration   *)
(* to whole seconds is visible.                                            *)
(***************************************************************************)
EXTENDS Integers, Sequences, FiniteSets, TLC

\* ------------------------------------------------------------------ bounds
MaxDeliveries == 3
MaxTime == 2

\* --------------------------------------------------------------- constants
UnitsPerSecond == 2
ConfidenceThreshold == 50
ContextWindow == 6
GatherTimeout == 10
Null == -1

Procs == {"w1", "w2"}
Seq1 == {"w1"}

SessionIds == <<"S1", "S2", "S3", "S4", "S5", "S6">>
InboundSids == {"CAin"}
OutboundSids == {"CAout7d41c9e2"}
CallSids == InboundSids \cup OutboundSids

TerminalStatuses == {"completed", "failed", "busy"}

\* The agents stored at the start; the user table is read-only to the call core.
AgentRows ==
    { [id |-> "A1", tenant_id |-> "T1", name |-> "Ava", system_prompt |-> "You are Ava.",
       voice_type |-> "female", fallback_response |-> ""],
      [id |-> "A2", tenant_id |-> "T2", name |-> "Bo", system_prompt |-> "",
       voice_type |-> "", fallback_response |-> "Hi, Bo here."] }
NoAgent ==
    [id |-> "", tenant_id |-> "", name |-> "", system_prompt |-> "",
     voice_type |-> "", fallback_response |-> ""]
UserRows == { [id |-> "U1", current_tenant_id |-> "T1"] }

\* VoiceAgentManager: the record register_agent stores, and the state of the global
\* manager after the two sample registrations at import.
NoCall == ""
AgentRecord(capabilities) ==
    [capabilities |-> capabilities, status |-> "available", current_call |-> NoCall]
DefaultCapabilities == <<"voice", "general">>
SampleAgents ==
    [a \in {"agent_12345", "agent_67890"} |->
        AgentRecord(IF a = "agent_12345" THEN <<"voice", "support", "sales">>
                    ELSE <<"voice", "technical", "billing">>)]
NoAssignments == [c \in {} |-> ""]

\* ---------------------------------------------------------------- helpers
\* uuid.UUID(s): raises ValueError on a malformed string.
UuidOk(s) == s \notin {"", "bad"}

\* float(confidence) of the form field, in hundredths; Null stands for ValueError.
ParseFloat(s) ==
    CASE s = "0"    -> 0
      [] s = "0.3"  -> 30
      [] s = "0.5"  -> 50
      [] s = "0.92" -> 92
      [] OTHER      -> Null

\* The characters of the provider call ids, for slicing.
Chars(s) ==
    CASE s = "CAout7d41c9e2" ->
           <<"C", "A", "o", "u", "t", "7", "d", "4", "1", "c", "9", "e", "2">>
      [] s = "CAin" -> <<"C", "A", "i", "n">>
      [] OTHER -> <<>>

RECURSIVE Join(_)
Join(cs) == IF cs = <<>> THEN "" ELSE Head(cs) \o Join(Tail(cs))

IsPrefix(s, t) == Len(s) <= Len(t) /\ SubSeq(t, 1, Len(s)) = s

LastN(s, n) == IF Len(s) <= n THEN s ELSE SubSeq(s, Len(s) - n + 1, Len(s))

\* f"call_{call.sid[-8:]}"
CallIdSuffixLen == 8
CallIdOf(sid) == "call_" \o Join(LastN(Chars(sid), CallIdSuffixLen))

RECURSIVE CountRole(_, _)
CountRole(t, role) ==
    IF t = <<>> THEN 0
    ELSE (IF t[1].role = role THEN 1 ELSE 0) + CountRole(Tail(t), role)

\* ----------------------------------------------------------------- markup
NoAction == [path |-> "", agentId |-> "", sessionId |-> ""]
Say(text, voice) ==
    [verb |-> "Say", text |-> text, voice |-> voice, action |-> NoAction, timeout |-> 0]
Gather(action, prompt, voice) ==
    [verb |-> "Gather", text |-> prompt, voice |-> voice, action |-> action,
     timeout |-> GatherTimeout]

\* HTMLResponse(str(response), media_type="application/xml")
\* What a JSON response carries; NoBody for markup, acknowledgments and errors.
NoBody == [kind |-> "none"]
Twiml(verbs) == [code |-> 200, doc |-> TRUE, verbs |-> verbs, detail |-> "", body |-> NoBody]
\* HTMLResponse("", media_type="application/xml")
EmptyAck == [code |-> 200, doc |-> FALSE, verbs |-> <<>>, detail |-> "", body |-> NoBody]
HttpError(code, detail) ==
    [code |-> code, doc |-> FALSE, verbs |-> <<>>, detail |-> detail, body |-> NoBody]
NoResponse == [code |-> 0, doc |-> FALSE, verbs |-> <<>>, detail |-> "", body |-> NoBody]
\* A response_model answer: status 200 and the serialised model.
JsonOk(body) == [code |-> 200, doc |-> FALSE, verbs |-> <<>>, detail |-> "", body |-> body]

_map_voice_type_to_tts(voice_type) ==
    CASE voice_type = "male"    -> "en-US-Neural2-F"
      [] voice_type = "female"  -> "en-US-Neural2-E"
      [] voice_type \in {"alloy", "echo", "fable", "onyx", "nova", "shimmer"} -> voice_type
      [] OTHER -> "alloy"

\* agent.voice_type or "alloy"
AgentTtsVoice(agent) ==
    _map_voice_type_to_tts(IF agent.voice_type = "" THEN "alloy" ELSE agent.voice_type)

_get_twilio_voice(voice_type) ==
    CASE voice_type = "male"    -> "en-US-Neural2-F"
      [] voice_type = "female"  -> "en-US-Neural2-E"
      [] OTHER -> ""

VoiceProcessAction(agent, session) ==
    [path |-> "/voice/webhook/voice-process", agentId |-> agent.id, sessionId |-> session.id]
CallEventsAction(agentId) ==
    [path |-> "/api/v1/voice/webhook/call-events", agentId |-> agentId, sessionId |-> ""]

\* ------------------------------------------------------------------ state
VARIABLES
    sessions,     \* the CallSession table, rows in insertion order
    now,          \* datetime.utcnow(), in half seconds
    proc,         \* per worker: the request it handles and its local state
    placed,       \* outbound provider call ids the provider has created
    delivered,    \* number of requests accepted so far
    returned,     \* the request that returned in the step just taken
    appendsDone,  \* per row: add_transcript_entry calls that committed
    agents,       \* the Agent table
    active_agents, \* VoiceAgentManager.active_agents: agent id -> record
    call_agents   \* VoiceAgentManager.call_agents: call id -> agent id

vars == <<sessions, now, proc, placed, delivered, returned, appendsDone, agents,
          active_agents, call_agents>>

NoRow ==
    [id |-> "", user_id |-> "", agent_id |-> "", tenant_id |-> "",
     start_time |-> Null, end_time |-> Null, status |-> "", duration |-> Null,
     call_transcript |-> <<>>, response_times |-> <<>>,
     twilio_call_sid |-> "", from_number |-> "", to_number |-> ""]

NoRequest ==
    [handler |-> "", auth |-> "", agentId |-> "", userId |-> "", sessionId |-> "",
     CallSid |-> "", CallStatus |-> "", Direction |-> "", SpeechResult |-> "",
     Confidence |-> "", From |-> "", To |-> "", tenant |-> "", role |-> ""]

Idle ==
    [pc |-> "idle", req |-> NoRequest, obj |-> NoRow, agent |-> NoAgent,
     snap |-> NoRow, reply |-> "", rtime |-> 0, invoked |-> FALSE,
     history |-> <<>>, appended |-> 0]

NoReturn ==
    [req |-> NoRequest, resp |-> NoResponse, obj |-> NoRow, agent |-> NoAgent,
     snap |-> NoRow, outcome |-> "", invoked |-> FALSE, history |-> <<>>,
     appended |-> 0]

Init ==
    /\ sessions = <<>>
    /\ now = 0
    /\ proc = [p \in Procs |-> Idle]
    /\ placed = {}
    /\ delivered = 0
    /\ returned = NoReturn
    /\ appendsDone = <<>>
    /\ agents = AgentRows
    /\ active_agents = SampleAgents
    /\ call_agents = NoAssignments

\* db.query(Agent).filter(Agent.id == agent_uuid).first(), after uuid.UUID(agentId);
\* an absent, malformed or unknown id leaves agent = None.
AgentById(agentId) ==
    IF agentId # "" /\ UuidOk(agentId) /\ \E a \in agents : a.id = agentId
    THEN CHOOSE a \in agents : a.id = agentId
    ELSE NoAgent

\* ------------------------------------------------------ the session table
RowIndexes == 1..Len(sessions)
RowsById(id) == { i \in RowIndexes : sessions[i].id = id }
RowsBySid(sid) == { i \in RowIndexes : sessions[i].twilio_call_sid = sid }
RowOf(id) == sessions[CHOOSE i \in RowIndexes : sessions[i].id = id]

\* get_call_session_by_id: .filter(CallSession.id == session_id).first()
get_call_session_by_idAnyRow(id) ==
    IF RowsById(id) # {} THEN RowOf(id)
    ELSE IF sessions = <<>> THEN NoRow ELSE sessions[1]
get_call_session_by_id(id) ==
    IF RowsById(id) = {} THEN NoRow ELSE RowOf(id)

\* get_call_session_by_twilio_sid: .filter(twilio_call_sid == sid).first() has no
\* ORDER BY, so with several matching rows any of them may come back.
SidMatchesNone(sid) == {NoRow}
SidMatches(sid) ==
    IF RowsBySid(sid) = {} THEN {NoRow} ELSE { sessions[i] : i \in RowsBySid(sid) }

\* create_call_session: the row the constructor builds; id = uuid4 default.
NewRow(user_id, agent_id, tenant_id, sid, from_number, to_number) ==
    [id |-> SessionIds[Len(sessions) + 1], user_id |-> user_id, agent_id |-> agent_id,
     tenant_id |-> tenant_id, start_time |-> now, end_time |-> Null,
     status |-> "active", duration |-> Null,
     call_transcript |-> <<>>, response_times |-> <<>>,
     twilio_call_sid |-> sid, from_number |-> from_number, to_number |-> to_number]

\* update_call_session_status on a loaded row: the assignments of lines 96-101.
DurationSeconds(start_time, end_time) == (end_time - start_time) \div UnitsPerSecond
StatusUpdateResetsStart(row, status) ==
    IF status \in TerminalStatuses
    THEN [row EXCEPT !.status = status, !.start_time = now, !.end_time = now,
                     !.duration = 0]
    ELSE [row EXCEPT !.status = status]
StatusUpdate(row, status) ==
    IF status \in TerminalStatuses
    THEN [row EXCEPT !.status = status, !.end_time = now,
                     !.duration = IF row.start_time # Null
                                  THEN DurationSeconds(row.start_time, now)
                                  ELSE row.duration]
    ELSE [row EXCEPT !.status = status]

\* The rows after update_call_session_status(db, id, status) committed.
SessionsAfterStatusAllRows(id, status) ==
    [i \in RowIndexes |-> StatusUpdate(sessions[i], status)]
SessionsAfterStatus(id, status) ==
    [i \in RowIndexes |->
        IF sessions[i].id = id THEN StatusUpdate(sessions[i], status) ELSE sessions[i]]

\* add_transcript_entry: the entries of lines 130-134 and 142-145.
TranscriptEntry(role, content) == [timestamp |-> now, role |-> role, content |-> content]
ResponseTimeEntry(response_time) == [timestamp |-> now, response_time |-> response_time]


\* ------------------------------------------------------------- scheduling
Deliverable(sid) == sid = "" \/ sid \in InboundSids \/ sid \in placed

\* A worker that is free takes the next request.
Accept(p) ==
    /\ proc[p].pc = "idle"
    /\ delivered < MaxDeliveries
    /\ delivered' = delivered + 1

\* The handler of worker p returns resp; st is its local state at that point.
Finish(p, st, resp, outcome) ==
    /\ proc' = [proc EXCEPT ![p] = Idle]
    /\ returned' = [req |-> st.req, resp |-> resp, obj |-> st.obj, agent |-> st.agent,
                    snap |-> st.snap, outcome |-> outcome, invoked |-> st.invoked,
                    history |-> st.history, appended |-> st.appended]

\* The handler of worker p goes on with local state st.
Continue(p, st) ==
    /\ proc' = [proc EXCEPT ![p] = st]
    /\ returned' = NoReturn

\* validate_twilio_signature: the header is present and equals the HMAC of url + body.
validate_twilio_signatureAny(auth) == TRUE
validate_twilio_signature(auth) == auth = "twilio_valid"
\* validate_webrtc_auth: any Authorization header that starts with "Bearer ".
validate_webrtc_auth(auth) == auth = "bearer"

Tick ==
    /\ now < MaxTime
    /\ now' = now + 1
    /\ returned' = NoReturn
    /\ UNCHANGED <<sessions, proc, placed, delivered, appendsDone, agents, active_agents, call_agents>>

\* ------------------------------------------------ requests the model draws
Request(handler, auth, agentId, userId, sessionId, sid, status, direction, speech, conf) ==
    [handler |-> handler, auth |-> auth, agentId |-> agentId, userId |-> userId,
     sessionId |-> sessionId, CallSid |-> sid, CallStatus |-> status,
     Direction |-> direction, SpeechResult |-> speech, Confidence |-> conf,
     From |-> "+15550001111", To |-> "+15551234567", tenant |-> "", role |-> ""]

TwilioAuths == {"twilio_valid", "twilio_invalid"}
AllAuths == {"twilio_valid", "twilio_invalid", "bearer", "authz_bad", "none"}
AgentIdParams == {"A1", "A2", "bad", ""}
UserIdParams == {"U1", "U9", "bad", ""}

VoiceInitRequests ==
    { Request("voice-init", "twilio_valid", "A1", "U1", "", s, "", "", "", "") :
        s \in CallSids }
    \cup { Request("voice-init", a, "A1", "U1", "", "CAin", "", "", "", "") :
        a \in TwilioAuths }
    \cup { Request("voice-init", "twilio_valid", g, "U1", "", "CAin", "", "", "", "") :
        g \in AgentIdParams }
    \cup { Request("voice-init", "twilio_valid", "A1", u, "", "CAin", "", "", "", "") :
        u \in UserIdParams }

EndStatuses == {"completed", "failed", "busy", "in-progress", "no-answer"}
CallEndRequests ==
    { Request("call-end", "twilio_valid", "", "", "", "CAin", c, "", "", "") :
        c \in EndStatuses }
    \cup { Request("call-end", "twilio_valid", "", "", "", s, "completed", "", "", "") :
        s \in CallSids \cup {""} }
    \cup { Request("call-end", "twilio_valid", "", "", "S1", "CAin", c, "", "", "") :
        c \in {"completed", "in-progress"} }
    \cup { Request("call-end", "twilio_valid", "", "", i, "CAin", "completed", "", "", "") :
        i \in {"bad", "S9"} }
    \cup { Request("call-end", a, "", "", "", "CAin", "completed", "", "", "") :
        a \in TwilioAuths }

SpeechTexts == {"I need help"}
Confidences == {"0", "0.3", "0.5", "0.92", "abc"}
VoiceProcessRequests ==
    { Request("voice-process", "twilio_valid", "A1", "", "", "CAin", "", "", t, c) :
        t \in SpeechTexts, c \in Confidences }
    \cup { Request("voice-process", "twilio_valid", "A1", "", "", "CAin", "", "", "", c) :
        c \in {"0.92", "abc"} }
    \cup { Request("voice-process", "twilio_valid", g, "", i, "CAin", "", "", "I need help", "0.92") :
        g \in AgentIdParams, i \in {"", "S1"} }
    \cup { Request("voice-process", "twilio_valid", "A1", "", i, "CAin", "", "", "I need help", "0.92") :
        i \in {"S9", "bad"} }
    \cup { Request("voice-process", "twilio_valid", "A1", "", i, "", "", "", "I need help", "0.92") :
        i \in {"", "S1"} }
    \cup { Request("voice-process", "twilio_valid", "A1", "", "", "CAout7d41c9e2", "", "", "I need help", "0.92") }
    \cup { Request("voice-process", a, "A1", "", "", "CAin", "", "", "I need help", c) :
        a \in TwilioAuths, c \in {"0.3", "0.92"} }

\* --------------------------------------------- voice-init (voice_processing)
Greeting(agent) ==
    IF agent.fallback_response # "" THEN agent.fallback_response
    ELSE "Hello! This is " \o agent.name \o ". How can I help you today?"

VoiceInitMarkup(agent, session) ==
    Twiml(<< Say(Greeting(agent), AgentTtsVoice(agent)),
             Gather(VoiceProcessAction(agent, session),
                    "Please tell me how I can assist you.", AgentTtsVoice(agent)),
             Say("I didn't hear anything. Please let me know if you need assistance.",
                 AgentTtsVoice(agent)) >>)
NoAgentMarkup ==
    Twiml(<< Say("I'm sorry, but I couldn't find the agent configuration. Please try again later.", "") >>)
VoiceInitErrorMarkup ==
    Twiml(<< Say("Thank you for calling. An agent will be with you shortly.", "") >>)

\* initialize_voice_call up to the session lookup of line 255.
VoiceInitResolve(p, r) ==
    /\ Accept(p)
    /\ r \in VoiceInitRequests
    /\ Deliverable(r.CallSid)
    /\ UNCHANGED <<sessions, now, placed, appendsDone, agents, active_agents, call_agents>>
    /\ LET st == [Idle EXCEPT !.req = r, !.agent = AgentById(r.agentId)] IN
       IF ~validate_twilio_signature(r.auth)
       THEN Finish(p, st, VoiceInitErrorMarkup, "error")
       ELSE IF st.agent = NoAgent
       THEN Finish(p, st, NoAgentMarkup, "no_agent")
       ELSE \E found \in (IF r.CallSid # "" THEN SidMatches(r.CallSid) ELSE {NoRow}) :
              LET st2 == [st EXCEPT !.obj = found] IN
              IF found = NoRow /\ r.userId # ""
              THEN IF UuidOk(r.userId)
                   THEN Continue(p, [st2 EXCEPT !.pc = "vi_create"])
                   ELSE Finish(p, st2, VoiceInitMarkup(st.agent, NoRow), "greeting")
              ELSE Finish(p, st2, VoiceInitMarkup(st.agent, found), "greeting")

\* initialize_voice_call, lines 260-268: create_call_session and the greeting.  The
\* insert of a row whose user does not exist fails and the handler goes on without one.
VoiceInitCreate(p) ==
    /\ proc[p].pc = "vi_create"
    /\ UNCHANGED <<now, placed, delivered, agents, active_agents, call_agents>>
    /\ LET st == proc[p]
           r == st.req
           row == NewRow(r.userId, st.agent.id, st.agent.tenant_id, r.CallSid, r.From, r.To)
       IN IF (\E u \in UserRows : u.id = r.userId) /\ (\E a \in agents : a.id = st.agent.id)
          THEN /\ sessions' = Append(sessions, row)
               /\ appendsDone' = Append(appendsDone, 0)
               /\ Finish(p, [st EXCEPT !.obj = row], VoiceInitMarkup(st.agent, row), "greeting")
          ELSE /\ UNCHANGED <<sessions, appendsDone>>
               /\ Finish(p, st, VoiceInitMarkup(st.agent, NoRow), "greeting")

\* ------------------------------------------------ call-end (voice_processing)
\* handle_call_end: the session the status is written to, by sessionId if the query
\* parameter is given, else by CallSid.
CallEnd(p, r) ==
    /\ Accept(p)
    /\ r \in CallEndRequests
    /\ Deliverable(r.CallSid)
    /\ UNCHANGED <<now, placed, appendsDone, agents, active_agents, call_agents>>
    /\ LET st == [Idle EXCEPT !.req = r] IN
       IF ~validate_twilio_signature(r.auth)
       THEN UNCHANGED sessions /\ Finish(p, st, EmptyAck, "error")
       ELSE IF r.sessionId # ""
       THEN IF UuidOk(r.sessionId) /\ RowsById(r.sessionId) # {}
            THEN /\ sessions' = SessionsAfterStatus(r.sessionId, r.CallStatus)
                 /\ Finish(p, [st EXCEPT !.snap = RowOf(r.sessionId)], EmptyAck, "ack")
            ELSE UNCHANGED sessions /\ Finish(p, st, EmptyAck, "ack")
       ELSE IF r.CallSid # ""
       THEN \E found \in SidMatches(r.CallSid) :
              IF found # NoRow
              THEN /\ sessions' = SessionsAfterStatus(found.id, r.CallStatus)
                   /\ Finish(p, [st EXCEPT !.snap = found], EmptyAck, "ack")
              ELSE UNCHANGED sessions /\ Finish(p, st, EmptyAck, "ack")
       ELSE UNCHANGED sessions /\ Finish(p, st, EmptyAck, "ack")


\* ------------------------------------------- voice-process (voice_processing)
\* Line 98: if speech_result and float(confidence) > 0.5
ConfidenceGateNoThreshold(speech, confidence) ==
    speech # ""
ConfidenceGate(speech, confidence) ==
    speech # "" /\ ParseFloat(confidence) > ConfidenceThreshold

TechnicalDifficultiesMarkup ==
    Twiml(<< Say("I'm sorry, but I'm experiencing technical difficulties. Please try again later.", "") >>)
RepeatMarkup(agent, session) ==
    Twiml(<< Say("I didn't catch that clearly. Could you please repeat what you said?", ""),
             Gather(VoiceProcessAction(agent, session),
                    "Please speak clearly and try again.", "") >>)
FallbackMarkupOtherTarget(agent, session) ==
    Twiml(<< Say("I'm sorry, but I'm having trouble processing your request right now. Please try again.", ""),
             Gather(VoiceProcessAction(agent, NoRow), "Please try again.", "") >>)
FallbackMarkup(agent, session) ==
    Twiml(<< Say("I'm sorry, but I'm having trouble processing your request right now. Please try again.", ""),
             Gather(VoiceProcessAction(agent, session), "Please try again.", "") >>)
ReplyMarkup(agent, session, reply) ==
    Twiml(<< Say(reply, AgentTtsVoice(agent)),
             Gather(VoiceProcessAction(agent, session),
                    "How else can I help you?", AgentTtsVoice(agent)),
             Say("I didn't hear anything. Please let me know if you need anything else.",
                 AgentTtsVoice(agent)) >>)

\* Lines 108-117: the last messages of the loaded transcript, as {role, content}.
ConversationHistory(transcript) ==
    LET recent == LastN(transcript, ContextWindow) IN
    [i \in 1..Len(recent) |-> [role |-> recent[i].role, content |-> recent[i].content]]

\* process_voice_input, lines 46-98: signature, session and agent lookup, the gate.
VoiceProcessResolve(p, r) ==
    /\ Accept(p)
    /\ r \in VoiceProcessRequests
    /\ Deliverable(r.CallSid)
    /\ UNCHANGED <<sessions, now, placed, appendsDone, agents, active_agents, call_agents>>
    /\ LET st == [Idle EXCEPT !.req = r]
           byId == IF r.sessionId # "" /\ UuidOk(r.sessionId)
                   THEN get_call_session_by_id(r.sessionId) ELSE NoRow
       IN
       IF ~validate_twilio_signature(r.auth)
       THEN Finish(p, st, TechnicalDifficultiesMarkup, "error")
       ELSE \E found \in (IF byId = NoRow /\ r.CallSid # ""
                          THEN SidMatches(r.CallSid) ELSE {byId}) :
              LET agent == IF AgentById(r.agentId) = NoAgent /\ found # NoRow
                           THEN AgentById(found.agent_id) ELSE AgentById(r.agentId)
                  st2 == [st EXCEPT !.obj = found, !.snap = found, !.agent = agent]
              IN
              IF agent = NoAgent
              THEN Finish(p, st2, NoAgentMarkup, "no_agent")
              ELSE IF r.SpeechResult # "" /\ ParseFloat(r.Confidence) = Null
              THEN Finish(p, st2, TechnicalDifficultiesMarkup, "error")
              ELSE IF ConfidenceGate(r.SpeechResult, r.Confidence)
              THEN Continue(p, [st2 EXCEPT !.pc = IF found # NoRow THEN "vp_user"
                                                                   ELSE "vp_model"])
              ELSE Finish(p, st2, RepeatMarkup(agent, found), "repeat")

\* The columns add_transcript_entry changes on the loaded object and commits.
AppendedColumnsNoTimes(obj, role, content, response_time) ==
    [obj EXCEPT !.call_transcript = Append(@, TranscriptEntry(role, content))]
AppendedColumnsPrepend(obj, role, content, response_time) ==
    [obj EXCEPT !.call_transcript = <<TranscriptEntry(role, content)>> \o @,
                !.response_times = IF response_time # Null
                                    THEN Append(@, ResponseTimeEntry(response_time))
                                    ELSE @]
AppendedColumns(obj, role, content, response_time) ==
    [obj EXCEPT !.call_transcript = Append(@, TranscriptEntry(role, content)),
                !.response_times = IF response_time # Null
                                    THEN Append(@, ResponseTimeEntry(response_time))
                                    ELSE @]

\* The table after the commit of add_transcript_entry: the UPDATE carries the columns
\* the call changed, taken from the loaded object.
SessionsAfterAppend(obj, response_time) ==
    [i \in RowIndexes |->
        IF sessions[i].id = obj.id
        THEN [sessions[i] EXCEPT
                !.call_transcript = obj.call_transcript,
                !.response_times = IF response_time # Null THEN obj.response_times ELSE @]
        ELSE sessions[i]]

AppendsAfter(id) ==
    [i \in RowIndexes |-> IF sessions[i].id = id THEN appendsDone[i] + 1 ELSE appendsDone[i]]

\* Lines 100-103: add_transcript_entry(db, call_session.id, "user", speech_result).
VoiceProcessAddUser(p) ==
    /\ proc[p].pc = "vp_user"
    /\ UNCHANGED <<now, placed, delivered, agents, active_agents, call_agents>>
    /\ LET st == proc[p]
           obj == AppendedColumns(st.obj, "user", st.req.SpeechResult, Null)
       IN /\ sessions' = SessionsAfterAppend(obj, Null)
          /\ appendsDone' = AppendsAfter(obj.id)
          /\ Continue(p, [st EXCEPT !.obj = obj, !.appended = @ + 1, !.pc = "vp_model"])

Replies == {"Sure, I can help."}
ElapsedChoices == {1}

\* Lines 106-127: db.refresh of the append, the history, and the adapter call, which
\* returns a reply with its elapsed time or raises.
VoiceProcessModel(p) ==
    /\ proc[p].pc = "vp_model"
    /\ UNCHANGED <<sessions, now, placed, delivered, appendsDone, agents, active_agents, call_agents>>
    /\ LET st0 == proc[p]
           obj == IF st0.obj = NoRow THEN NoRow ELSE RowOf(st0.obj.id)
           st == [st0 EXCEPT !.obj = obj, !.invoked = TRUE,
                             !.history = ConversationHistory(obj.call_transcript)]
       IN \/ \E reply \in Replies, rtime \in ElapsedChoices :
               IF obj = NoRow
               THEN Finish(p, [st EXCEPT !.reply = reply, !.rtime = rtime],
                           ReplyMarkup(st.agent, NoRow, reply), "reply")
               ELSE Continue(p, [st EXCEPT !.reply = reply, !.rtime = rtime,
                                           !.pc = "vp_assistant"])
          \/ Finish(p, st, FallbackMarkup(st.agent, obj), "fallback")

\* Lines 130-160: add_transcript_entry(..., "assistant", ai_response_text,
\* response_time) and the reply markup.
VoiceProcessAddAssistant(p) ==
    /\ proc[p].pc = "vp_assistant"
    /\ UNCHANGED <<now, placed, delivered, agents, active_agents, call_agents>>
    /\ LET st == proc[p]
           obj == AppendedColumns(st.obj, "assistant", st.reply, st.rtime)
       IN /\ sessions' = SessionsAfterAppend(obj, st.rtime)
          /\ appendsDone' = AppendsAfter(obj.id)
          /\ Finish(p, [st EXCEPT !.obj = obj, !.appended = @ + 1],
                    ReplyMarkup(st.agent, obj, st.reply), "reply")

\* ----------------------------------------------------- call-events (voice)
CallEventStatuses ==
    {"initiated", "ringing", "in-progress", "completed", "failed", "busy", "no-answer"}
CallEventsRequests ==
    { Request("call-events", "twilio_valid", "A1", "", "", "CAin", c, d, "", "") :
        c \in CallEventStatuses, d \in {"outbound-api", "inbound"} }
    \cup { Request("call-events", "twilio_valid", g, "", "", "CAin", c, "outbound-api", t, "0.92") :
        g \in {"A1", ""}, c \in {"in-progress", "completed"}, t \in SpeechTexts }
    \cup { Request("call-events", "twilio_valid", "", "", "", "CAin", c, "outbound-api", "", "") :
        c \in {"ringing", "in-progress", "completed", "no-answer"} }
    \cup { Request("call-events", a, "A1", "", "", "CAin", "completed", "outbound-api", "", "") :
        a \in AllAuths }
    \cup { Request("call-events", "twilio_valid", g, "", "", "CAin", c, "outbound-api", "", "") :
        g \in {"A2", "bad", "A9"}, c \in {"ringing", "in-progress"} }
    \cup { Request("call-events", "twilio_valid", "A1", "", "", s, c, "outbound-api", "", "") :
        s \in OutboundSids, c \in {"initiated", "ringing"} }

\* Every combination of status, direction and speech payload, for the dispatch order.
DispatchRequests ==
    { Request("call-events", "twilio_valid", g, "", "", "CAin", c, d, t,
              IF t = "" THEN "" ELSE "0.92") :
        g \in {"A1", ""}, c \in CallEventStatuses, d \in {"outbound-api", "inbound"},
        t \in SpeechTexts \cup {""} }

\* _process_speech_input: the keyword table, on the texts the model draws.
_process_speech_input(agent, speech_text) ==
    IF speech_text = "I need help"
    THEN "I'm here to help! What specific assistance do you need?"
    ELSE "I understand you said: " \o speech_text
         \o ". Let me help you with that. What would you like me to do?"

\* _generate_agent_response
_generate_agent_responseNoAgentId(agent) ==
    LET greeting == IF agent.fallback_response # "" THEN agent.fallback_response
                    ELSE "Hello! This is " \o agent.name
                         \o " speaking. How can I help you today?"
        voice == _get_twilio_voice(agent.voice_type)
    IN Twiml(<< Say(greeting, voice),
                Gather(CallEventsAction(""), "Please tell me how I can assist you.", voice),
                Say("I didn't catch that. Let me transfer you to a human agent.", voice) >>)
_generate_agent_response(agent) ==
    LET greeting == IF agent.fallback_response # "" THEN agent.fallback_response
                    ELSE "Hello! This is " \o agent.name
                         \o " speaking. How can I help you today?"
        voice == _get_twilio_voice(agent.voice_type)
    IN Twiml(<< Say(greeting, voice),
                Gather(CallEventsAction(agent.id), "Please tell me how I can assist you.", voice),
                Say("I didn't catch that. Let me transfer you to a human agent.", voice) >>)

SpeechBranchMarkup(agent, speech) ==
    LET voice == IF agent # NoAgent THEN _get_twilio_voice(agent.voice_type) ELSE "" IN
    Twiml(<< Say(IF agent # NoAgent THEN _process_speech_input(agent, speech)
                 ELSE "I heard you say: " \o speech \o ". How can I help you further?",
                 voice),
             Gather(CallEventsAction(agent.id),
                    "Please tell me more about how I can help you.", voice),
             Say("I didn't catch that. Let me transfer you to a human agent.", voice) >>)

\* handle_call_events_webhook, lines 181-289: the branch taken and its response.
CallEventsResponseStatusFirst(r, agent) ==
    IF r.CallStatus = "initiated" /\ r.Direction = "outbound-api" THEN EmptyAck
    ELSE IF r.CallStatus \in {"completed", "failed", "busy"} THEN EmptyAck
    ELSE IF r.SpeechResult # "" THEN SpeechBranchMarkup(agent, r.SpeechResult)
    ELSE IF (r.CallStatus = "ringing" /\ r.Direction = "outbound-api")
            \/ r.CallStatus = "in-progress"
    THEN IF agent # NoAgent THEN _generate_agent_response(agent)
         ELSE Twiml(<< Say("Your call is now connected. How can we help you today?", "") >>)
    ELSE Twiml(<< Say("Thank you for your call.", agent.name) >>)
CallEventsResponse(r, agent) ==
    IF r.SpeechResult # "" THEN SpeechBranchMarkup(agent, r.SpeechResult)
    ELSE IF r.CallStatus = "initiated" /\ r.Direction = "outbound-api" THEN EmptyAck
    ELSE IF r.CallStatus = "ringing" /\ r.Direction = "outbound-api"
    THEN IF agent # NoAgent THEN _generate_agent_response(agent)
         ELSE Twiml(<< Say("Hello! Thank you for answering our call.", ""),
                       Say("An agent will be with you shortly.", "") >>)
    ELSE IF r.CallStatus = "in-progress"
    THEN IF agent # NoAgent THEN _generate_agent_response(agent)
         ELSE Twiml(<< Say("Your call is now connected. How can we help you today?", "") >>)
    ELSE IF r.CallStatus \in {"completed", "failed", "busy"} THEN EmptyAck
    ELSE Twiml(<< Say("Thank you for your call.", agent.name) >>)

\* Lines 127-139: a Twilio signature header is accepted unchecked, an Authorization
\* header must start with "Bearer ", and a request with neither header is let in.
CallEventsAuthOk(auth) ==
    IF auth \in TwilioAuths THEN TRUE
    ELSE IF auth \in {"bearer", "authz_bad"} THEN validate_webrtc_auth(auth)
    ELSE TRUE

\* What can go wrong inside the try block after the authentication check: the form
\* parse of line 142 raises, or nothing does.  (An error of the agent lookup is caught
\* at lines 166-176 and leaves agent = None.)
InternalFaults == {"none", "form"}

\* The request as the handler knows it when the form parse raised: the headers and
\* the query parameter, and no form field.
Unparsed(r) ==
    [NoRequest EXCEPT !.handler = r.handler, !.auth = r.auth, !.agentId = r.agentId]

\* Lines 291-298: the except clause logs and re-raises, which the framework answers.
UnhandledError == HttpError(500, "Internal Server Error")

\* handle_call_events_webhook: it reads the agent and writes nothing.  snap records
\* the session stored for the call when the request is handled.
CallEvents(p, r) ==
    /\ Accept(p)
    /\ Deliverable(r.CallSid)
    /\ UNCHANGED <<sessions, now, placed, appendsDone, agents, active_agents, call_agents>>
    /\ \E stored \in SidMatches(r.CallSid), fault \in InternalFaults :
         LET st == [Idle EXCEPT !.req = r, !.agent = AgentById(r.agentId), !.snap = stored] IN
         IF ~CallEventsAuthOk(r.auth)
         THEN Finish(p, st, HttpError(403, "Invalid WebRTC authentication"), "error")
         ELSE IF fault = "form"
         THEN Finish(p, [Idle EXCEPT !.req = Unparsed(r)], UnhandledError, "raised")
         ELSE Finish(p, st, CallEventsResponse(r, st.agent), "handled")

\* ------------------------------------------------- call initiation (voice)
InitiateRequests ==
    { Request("initiate", "jwt", g, "U1", "", "", "", "", "", "") :
        g \in {"A1", "A2", "A9", "bad"} }
    \cup { [Request("initiate", "jwt", "A1", "U1", "", "", "", "", "", "") EXCEPT !.To = n] :
        n \in {"5551234567", ""} }

\* validate_phone_number
validate_phone_number(n) == n # "" /\ n \in {"+15551234567"}

\* agent_service.get_agent_by_id: the agent of that id in the caller's tenant, or None.
AgentInTenant(agentId, tenant_id) ==
    IF AgentById(agentId).tenant_id = tenant_id THEN AgentById(agentId) ELSE NoAgent

\* initiate_call, lines 51-78: validation, then twilio_service.make_call, which
\* returns the provider's new call or raises.  Every exception becomes a 500.
InitiatePlace(p, r) ==
    /\ Accept(p)
    /\ r \in InitiateRequests
    /\ UNCHANGED <<sessions, now, appendsDone, agents, active_agents, call_agents>>
    /\ LET user == CHOOSE u \in UserRows : u.id = r.userId
           agent == AgentInTenant(r.agentId, user.current_tenant_id)
           st == [Idle EXCEPT !.req = r, !.agent = agent]
       IN
       IF ~UuidOk(r.agentId)
       THEN UNCHANGED placed /\ Finish(p, st, HttpError(500, "404: Agent " \o r.agentId \o " not found"), "error")
       ELSE IF ~validate_phone_number(r.To)
       THEN UNCHANGED placed /\ Finish(p, st, HttpError(500, "400: Invalid phone number format. Must start with +"), "error")
       ELSE IF agent = NoAgent
       THEN UNCHANGED placed /\ Finish(p, st, HttpError(500, "'NoneType' object has no attribute 'id'"), "error")
       ELSE \/ UNCHANGED placed /\ Finish(p, st, HttpError(500, "provider error"), "error")
            \/ \E sid \in OutboundSids \ placed :
                 /\ placed' = placed \cup {sid}
                 /\ Continue(p, [st EXCEPT !.pc = "ic_create", !.req.CallSid = sid])

\* schemas/twilio.py: the response model has the fields callId, twilioCallSid and
\* status; the callSessionId keyword the handler passes is not one of them and is
\* dropped when the model is built.
CallInitiateResponse(callId, twilioCallSid, callSessionId, status) ==
    [kind |-> "call_initiate", callId |-> callId, twilioCallSid |-> twilioCallSid,
     status |-> status]

\* The commit of a row whose agent_id or user_id names no stored row raises.
ForeignKeyViolation == "insert or update on table violates foreign key constraint"

\* initiate_call, lines 81-102: create_call_session and the response.  The insert
\* of a row whose agent was deleted since the lookup fails, and the except clause of
\* lines 104-105 answers 500; the provider call stays placed.
InitiateCreate(p) ==
    /\ proc[p].pc = "ic_create"
    /\ UNCHANGED <<now, placed, delivered, agents, active_agents, call_agents>>
    /\ LET st == proc[p]
           r == st.req
           user == CHOOSE u \in UserRows : u.id = r.userId
           row == NewRow(user.id, st.agent.id, user.current_tenant_id, r.CallSid,
                         "+15550009999", r.To)
       IN IF \E a \in agents : a.id = st.agent.id
          THEN /\ sessions' = Append(sessions, row)
               /\ appendsDone' = Append(appendsDone, 0)
               /\ Finish(p, [st EXCEPT !.obj = row],
                         JsonOk(CallInitiateResponse(CallIdOf(r.CallSid), r.CallSid, row.id,
                                                     "initiated")),
                         "initiated")
          ELSE /\ UNCHANGED <<sessions, appendsDone>>
               /\ Finish(p, st, HttpError(500, ForeignKeyViolation), "error")

\* ------------------------------------------- the session service, called directly
\* add_transcript_entry(db, session_id, role, content, response_time): the rows after
\* the call and the value it returns (None when no row has that id).
add_transcript_entry(session_id, role, content, response_time) ==
    LET call_session == get_call_session_by_id(session_id) IN
    IF call_session = NoRow
    THEN [rows |-> sessions, result |-> NoRow]
    ELSE LET obj == AppendedColumns(call_session, role, content, response_time) IN
         [rows |-> SessionsAfterAppend(obj, response_time), result |-> obj]

ServiceIds == {"S1", "S9"}
Roles == {"user", "assistant"}
ResponseTimes == {Null, 1}

\* A caller with an ORM session of its own invokes add_transcript_entry once.
AddTranscriptEntryCall(p, session_id, role, response_time) ==
    /\ Accept(p)
    /\ UNCHANGED <<now, placed, agents, active_agents, call_agents>>
    /\ LET out == add_transcript_entry(session_id, role, "note", response_time)
           known == out.result # NoRow
           st == [Idle EXCEPT !.req = [NoRequest EXCEPT !.handler = "add_transcript_entry",
                                                        !.sessionId = session_id],
                              !.snap = get_call_session_by_id(session_id),
                              !.obj = out.result,
                              !.appended = IF known THEN 1 ELSE 0]
       IN /\ sessions' = out.rows
          /\ appendsDone' = IF known THEN AppendsAfter(session_id) ELSE appendsDone
          /\ Finish(p, st, NoResponse, IF known THEN "updated" ELSE "none")

\* ------------------------------------------- the read side (call_sessions)
\* require_tenant: the user of the token and the tenant the token selects; role is
\* the user's role in that tenant (is_admin_in_tenant, require_member_or_admin).
Requesters ==
    { [id |-> "U1", current_tenant_id |-> "T1", role |-> "admin"],
      [id |-> "U1", current_tenant_id |-> "T2", role |-> "member"],
      [id |-> "U2", current_tenant_id |-> "T1", role |-> "admin"],
      [id |-> "U2", current_tenant_id |-> "T2", role |-> "none"] }

ApiRequest(handler, user) ==
    [NoRequest EXCEPT !.handler = handler, !.auth = "jwt", !.userId = user.id,
                      !.tenant = user.current_tenant_id, !.role = user.role]

ReadIds == {"S1", "S2", "S9"}

\* call_sessions.py lines 101 and 143.
AccessDeniedNever(call_session, user) == FALSE
AccessDenied(call_session, user) ==
    call_session.tenant_id # user.current_tenant_id \/ call_session.user_id # user.id

\* CallSessionResponse(id=..., ..., response_times=...)
CallSessionResponse(call_session) == [kind |-> "call_session", session |-> call_session]

RECURSIVE SumResponseTimes(_)
SumResponseTimes(ts) ==
    IF ts = <<>> THEN 0 ELSE Head(ts).response_time + SumResponseTimes(Tail(ts))

\* get_call_session_stats; the average is kept as the pair total / count.
get_call_session_stats(call_session) ==
    [kind |-> "stats", session_id |-> call_session.id, status |-> call_session.status,
     duration |-> call_session.duration, start_time |-> call_session.start_time,
     end_time |-> call_session.end_time,
     total_messages |-> Len(call_session.call_transcript),
     user_messages |-> CountRole(call_session.call_transcript, "user"),
     assistant_messages |-> CountRole(call_session.call_transcript, "assistant"),
     average_response_time |->
        IF call_session.response_times = <<>> THEN <<>>
        ELSE << SumResponseTimes(call_session.response_times),
                Len(call_session.response_times) >>,
     total_response_time_entries |-> Len(call_session.response_times)]

\* get_call_session and get_call_session_stats: 404, 403, or the data.
ReadSession(p, user, id, stats) ==
    /\ Accept(p)
    /\ UNCHANGED <<sessions, now, placed, appendsDone, agents, active_agents, call_agents>>
    /\ LET r == [ApiRequest(IF stats THEN "get-stats" ELSE "get-session", user)
                   EXCEPT !.sessionId = id]
           call_session == get_call_session_by_id(id)
           st == [Idle EXCEPT !.req = r, !.snap = call_session]
       IN IF call_session = NoRow
          THEN Finish(p, st, HttpError(404, "Call session not found"), "error")
          ELSE IF AccessDenied(call_session, user)
          THEN Finish(p, st, HttpError(403, "Access denied"), "error")
          ELSE Finish(p, st,
                      JsonOk(IF stats THEN get_call_session_stats(call_session)
                                      ELSE CallSessionResponse(call_session)),
                      "ok")

\* list_call_sessions, lines 38-51: the rows of the user's tenant and user, and of
\* the status asked for if one is.
ListFilter(user, status) ==
    { i \in RowIndexes :
        /\ sessions[i].tenant_id = user.current_tenant_id
        /\ sessions[i].user_id = user.id
        /\ (status # "" => sessions[i].status = status) }

\* order_by(created_at.desc()): any order of the rows in which a row created later
\* never comes after one created earlier.
ListOrders(idx) ==
    { o \in [1..Cardinality(idx) -> idx] :
        /\ \A a, b \in 1..Cardinality(idx) : a # b => o[a] # o[b]
        /\ \A a, b \in 1..Cardinality(idx) :
              a < b => sessions[o[a]].start_time >= sessions[o[b]].start_time }

ListStatuses == {"", "completed"}

ListSessions(p, user, status) ==
    /\ Accept(p)
    /\ UNCHANGED <<sessions, now, placed, appendsDone, agents, active_agents, call_agents>>
    /\ \E o \in ListOrders(ListFilter(user, status)) :
         LET r == [ApiRequest("list-sessions", user) EXCEPT !.CallStatus = status]
             body == [kind |-> "call_session_list",
                      sessions |-> [k \in 1..Len(o) |-> sessions[o[k]]],
                      total |-> Cardinality(ListFilter(user, status))]
         IN Finish(p, [Idle EXCEPT !.req = r], JsonOk(body), "ok")

\* ------------------------------------------------- the agent endpoints (agent)
\* agent_service.get_agent_by_id on the table as it is now.
get_agent_by_id(agent_id, tenant_id) ==
    IF \E a \in agents : a.id = agent_id /\ a.tenant_id = tenant_id
    THEN CHOOSE a \in agents : a.id = agent_id /\ a.tenant_id = tenant_id
    ELSE NoAgent

AgentIds == {"A1", "A2", "A9"}
AgentNames == {"X"}
AgentOut(agent) == [kind |-> "agent", agent |-> agent]

\* require_member_or_admin / require_admin
RoleAllows(user, need_admin) ==
    IF need_admin THEN user.role = "admin" ELSE user.role \in {"admin", "member"}

\* get_agent
AgentGet(p, user, agent_id) ==
    /\ Accept(p)
    /\ UNCHANGED <<sessions, now, placed, appendsDone, agents, active_agents, call_agents>>
    /\ LET r == [ApiRequest("agent-get", user) EXCEPT !.agentId = agent_id]
           agent == get_agent_by_id(agent_id, user.current_tenant_id)
           st == [Idle EXCEPT !.req = r, !.agent = agent]
       IN IF ~RoleAllows(user, FALSE)
          THEN Finish(p, st, HttpError(403, "You are not a member of this tenant"), "error")
          ELSE IF agent = NoAgent
          THEN Finish(p, st, HttpError(404, "Agent not found"), "error")
          ELSE Finish(p, st, JsonOk(AgentOut(agent)), "ok")

\* update_agent (router) and AgentService.update_agent
AgentUpdate(p, user, agent_id, name) ==
    /\ Accept(p)
    /\ UNCHANGED <<sessions, now, placed, appendsDone, active_agents, call_agents>>
    /\ LET r == [ApiRequest("agent-update", user) EXCEPT !.agentId = agent_id]
           agent == get_agent_by_id(agent_id, user.current_tenant_id)
           st == [Idle EXCEPT !.req = r, !.agent = agent]
           updated == [agent EXCEPT !.name = name]
       IN IF ~RoleAllows(user, TRUE)
          THEN UNCHANGED agents
               /\ Finish(p, st, HttpError(403, "Admin access required for this operation"), "error")
          ELSE IF agent = NoAgent
          THEN UNCHANGED agents /\ Finish(p, st, HttpError(404, "Agent not found"), "error")
          ELSE /\ agents' = (agents \ {agent}) \cup {updated}
               /\ Finish(p, [st EXCEPT !.agent = updated], JsonOk(AgentOut(updated)), "ok")

\* delete_agent (router) and AgentService.delete_agent.  An agent that stored
\* sessions refer to cannot be deleted: CallSession.agent_id is NOT NULL with a
\* foreign key to agent.id, so the commit raises and nothing is deleted.
AgentDelete(p, user, agent_id) ==
    /\ Accept(p)
    /\ UNCHANGED <<sessions, now, placed, appendsDone, active_agents, call_agents>>
    /\ LET r == [ApiRequest("agent-delete", user) EXCEPT !.agentId = agent_id]
           agent == get_agent_by_id(agent_id, user.current_tenant_id)
           st == [Idle EXCEPT !.req = r, !.agent = agent]
       IN IF ~RoleAllows(user, TRUE)
          THEN UNCHANGED agents
               /\ Finish(p, st, HttpError(403, "Admin access required for this operation"), "error")
          ELSE IF agent = NoAgent
          THEN UNCHANGED agents /\ Finish(p, st, HttpError(404, "Agent not found"), "error")
          ELSE IF \E i \in RowIndexes : sessions[i].agent_id = agent.id
          THEN UNCHANGED agents /\ Finish(p, st, UnhandledError, "error")
          ELSE /\ agents' = agents \ {agent}
               /\ Finish(p, st, JsonOk([kind |-> "deleted", id |-> agent_id]), "ok")

\* ------------------------------------- VoiceAgentManager (voice_agent_service)
ManagerAgentIds == {"agent_12345", "agent_67890", "agent_new"}
ManagerCallSids == {"CA1", "CA2"}

\* The call of a manager method that returned, with its result.
ManagerReturn(method, agent_id, call_sid, result) ==
    [NoReturn EXCEPT !.req.handler = method, !.req.agentId = agent_id,
                     !.req.CallSid = call_sid, !.outcome = result]

\* register_agent(agent_id): stores a fresh record under the id, whatever was there.
register_agent(agent_id) ==
    /\ active_agents' =
          [a \in DOMAIN active_agents \cup {agent_id} |->
              IF a = agent_id THEN AgentRecord(DefaultCapabilities) ELSE active_agents[a]]
    /\ returned' = ManagerReturn("register_agent", agent_id, "", "True")
    /\ UNCHANGED <<sessions, now, proc, placed, delivered, appendsDone, agents, call_agents>>

\* assign_call_to_agent(call_sid, agent_id): ValueError for an unregistered agent.
assign_call_to_agent(call_sid, agent_id) ==
    IF agent_id \notin DOMAIN active_agents
    THEN /\ returned' = ManagerReturn("assign_call_to_agent", agent_id, call_sid, "ValueError")
         /\ UNCHANGED <<sessions, now, proc, placed, delivered, appendsDone, agents,
                        active_agents, call_agents>>
    ELSE /\ call_agents' =
               [c \in DOMAIN call_agents \cup {call_sid} |->
                   IF c = call_sid THEN agent_id ELSE call_agents[c]]
         /\ active_agents' =
               [active_agents EXCEPT ![agent_id].current_call = call_sid,
                                     ![agent_id].status = "busy"]
         /\ returned' = ManagerReturn("assign_call_to_agent", agent_id, call_sid, "True")
         /\ UNCHANGED <<sessions, now, proc, placed, delivered, appendsDone, agents>>

\* release_agent_from_call(call_sid)
release_agent_from_call(call_sid) ==
    IF call_sid \in DOMAIN call_agents
    THEN LET agent_id == call_agents[call_sid] IN
         /\ active_agents' =
               IF agent_id \in DOMAIN active_agents
               THEN [active_agents EXCEPT ![agent_id].current_call = NoCall,
                                          ![agent_id].status = "available"]
               ELSE active_agents
         /\ call_agents' = [c \in DOMAIN call_agents \ {call_sid} |-> call_agents[c]]
         /\ returned' = ManagerReturn("release_agent_from_call", "", call_sid, "True")
         /\ UNCHANGED <<sessions, now, proc, placed, delivered, appendsDone, agents>>
    ELSE /\ returned' = ManagerReturn("release_agent_from_call", "", call_sid, "False")
         /\ UNCHANGED <<sessions, now, proc, placed, delivered, appendsDone, agents,
                        active_agents, call_agents>>

\* get_agent_status: the summary the manager reports.
get_agent_status ==
    [agents |-> active_agents, call_assignments |-> call_agents,
     total_agents |-> Cardinality(DOMAIN active_agents),
     busy_agents |-> Cardinality({ a \in DOMAIN active_agents :
                                     active_agents[a].status = "busy" })]

\* ------------------------------------------------------------ specification
Step(p) ==
    \/ \E r \in VoiceInitRequests : VoiceInitResolve(p, r)
    \/ VoiceInitCreate(p)
    \/ \E r \in CallEndRequests : CallEnd(p, r)
    \/ \E r \in VoiceProcessRequests : VoiceProcessResolve(p, r)
    \/ VoiceProcessAddUser(p)
    \/ VoiceProcessModel(p)
    \/ VoiceProcessAddAssistant(p)
    \/ \E r \in CallEventsRequests : CallEvents(p, r)
    \/ \E r \in InitiateRequests : InitiatePlace(p, r)
    \/ InitiateCreate(p)

\* Two worker processes serve requests concurrently.
Next == Tick \/ \E p \in Procs : Step(p)
Spec == Init /\ [][Next]_vars

\* One worker process: each request is handled to the end before the next.
NextSeq == Tick \/ \E p \in Seq1 : Step(p)
SpecSeq == Init /\ [][NextSeq]_vars

\* One worker whose handler, once it has taken a request, goes on with its database
\* statements.  The adapter call of VoiceProcessModel is left out: it is a plain call
\* with no timeout around it, so nothing in the handler makes it come back.
HandlerSteps(p) ==
    \/ VoiceInitCreate(p)
    \/ VoiceProcessAddUser(p)
    \/ VoiceProcessAddAssistant(p)
    \/ InitiateCreate(p)
SpecLive == Init /\ [][NextSeq]_vars /\ \A p \in Seq1 : WF_vars(HandlerSteps(p))

\* The session service on its own: one worker through which sessions are created
\* (initiate_call, voice-init) and ended (call-end), and direct calls of
\* add_transcript_entry.
NextSvc ==
    \/ Tick
    \/ \E p \in Seq1 :
          \/ \E r \in InitiateRequests : InitiatePlace(p, r)
          \/ InitiateCreate(p)
          \/ \E r \in VoiceInitRequests : VoiceInitResolve(p, r)
          \/ VoiceInitCreate(p)
          \/ \E r \in CallEndRequests : CallEnd(p, r)
          \/ \E id \in ServiceIds, role \in Roles, rt \in ResponseTimes :
                AddTranscriptEntryCall(p, id, role, rt)
SpecSvc == Init /\ [][NextSvc]_vars

\* The session service with its read side: SpecSvc and the call_sessions queries.
NextRead ==
    \/ NextSvc
    \/ \E p \in Seq1, user \in Requesters :
          \/ \E id \in ReadIds, stats \in BOOLEAN : ReadSession(p, user, id, stats)
          \/ \E status \in ListStatuses : ListSessions(p, user, status)
SpecRead == Init /\ [][NextRead]_vars

\* The agent endpoints on their own.
NextAgents ==
    \/ Tick
    \/ \E p \in Seq1, user \in Requesters, id \in AgentIds :
          \/ AgentGet(p, user, id)
          \/ \E name \in AgentNames : AgentUpdate(p, user, id, name)
          \/ AgentDelete(p, user, id)
SpecAgents == Init /\ [][NextAgents]_vars

\* One inbound call served by two worker processes: the session is created by
\* voice-init, turns are processed and the call is ended, in any interleaving.
ConcVoiceInit == Request("voice-init", "twilio_valid", "A1", "U1", "", "CAin", "", "", "", "")
ConcTurn ==
    Request("voice-process", "twilio_valid", "A1", "", "", "CAin", "", "", "I need help", "0.92")
ConcCallEnd == Request("call-end", "twilio_valid", "", "", "", "CAin", "completed", "", "", "")
NextConc ==
    \/ Tick
    \/ \E p \in Procs :
          \/ VoiceInitResolve(p, ConcVoiceInit)
          \/ VoiceInitCreate(p)
          \/ VoiceProcessResolve(p, ConcTurn)
          \/ VoiceProcessAddUser(p)
          \/ VoiceProcessModel(p)
          \/ VoiceProcessAddAssistant(p)
          \/ CallEnd(p, ConcCallEnd)
SpecConc == Init /\ [][NextConc]_vars

\* Call initiation on two workers next to the agent endpoints: an agent can be
\* deleted between the agent lookup of initiate_call and its insert.
NextInitiate ==
    \/ Tick
    \/ \E p \in Procs :
          \/ \E r \in InitiateRequests : InitiatePlace(p, r)
          \/ InitiateCreate(p)
          \/ \E user \in Requesters, id \in AgentIds : AgentDelete(p, user, id)
SpecInitiate == Init /\ [][NextInitiate]_vars

\* The call-events dispatcher on its own, over every status, direction and speech
\* payload, with sessions created by voice-init.
NextDispatch ==
    \/ Tick
    \/ \E p \in Seq1 :
          \/ VoiceInitResolve(p, Request("voice-init", "twilio_valid", "A1", "U1", "",
                                         "CAin", "", "", "", ""))
          \/ VoiceInitCreate(p)
          \/ \E r \in DispatchRequests : CallEvents(p, r)
SpecDispatch == Init /\ [][NextDispatch]_vars

\* The in-memory agent manager on its own: any sequence of its three methods.
NextManager ==
    \/ \E a \in ManagerAgentIds : register_agent(a)
    \/ \E c \in ManagerCallSids, a \in ManagerAgentIds : assign_call_to_agent(c, a)
    \/ \E c \in ManagerCallSids : release_agent_from_call(c)
SpecManager == Init /\ [][NextManager]_vars


\* ----------------------------------------------------------------- claims
AllIdle == \A p \in Procs : proc[p].pc = "idle"

\* The speech turn that just returned passed the signature check, resolved an agent
\* and carried speech with a numeric confidence.
TurnReturned ==
    /\ returned.req.handler = "voice-process"
    /\ validate_twilio_signature(returned.req.auth)
    /\ returned.agent # NoAgent
    /\ returned.req.SpeechResult # ""
    /\ ParseFloat(returned.req.Confidence) # Null

HasGatherTo(verbs, action) ==
    \E i \in 1..Len(verbs) : verbs[i].verb = "Gather" /\ verbs[i].action = action

\* C1: once every handler has returned, at most one CallSession row is stored for
\* each provider call id.
C1_OneRowPerCallSid ==
    AllIdle =>
        \A i, j \in RowIndexes :
            sessions[i].twilio_call_sid = sessions[j].twilio_call_sid => i = j

\* C2: no step changes the status of a session except from active to completed,
\* failed or busy; a terminal status never changes.
C2_StatusMonotonic ==
    [][\A i \in RowIndexes :
          sessions'[i].status # sessions[i].status =>
              sessions[i].status = "active" /\ sessions'[i].status \in TerminalStatuses]_vars

\* C3: once a session is terminal, no step changes its end_time or its duration.
C3_EndTimeWriteOnce ==
    [][\A i \in RowIndexes :
          sessions[i].status \in TerminalStatuses =>
              /\ sessions'[i].end_time = sessions[i].end_time
              /\ sessions'[i].duration = sessions[i].duration]_vars

\* C4: when the call-events webhook has handled a completed, failed or busy delivery
\* without speech for a call whose stored session was active, that session has the
\* delivered status, an end_time, the duration end_time - start_time in seconds, and
\* the response is the empty acknowledgment.
C4_CallEventsTerminal ==
    ( /\ returned.req.handler = "call-events"
      /\ returned.outcome = "handled"
      /\ returned.req.CallStatus \in TerminalStatuses
      /\ returned.req.SpeechResult = ""
      /\ returned.snap.status = "active" )
    => LET row == RowOf(returned.snap.id) IN
       /\ row.status = returned.req.CallStatus
       /\ row.end_time # Null
       /\ row.duration = DurationSeconds(row.start_time, row.end_time)
       /\ returned.resp = EmptyAck

\* C5: in every step, the transcript and the response_times stored for a session
\* before the step are prefixes of those stored after it.
C5_AppendOnly ==
    [][\A i \in RowIndexes :
          /\ IsPrefix(sessions[i].call_transcript, sessions'[i].call_transcript)
          /\ IsPrefix(sessions[i].response_times, sessions'[i].response_times)]_vars

\* C6: once every handler has returned, the stored transcript of a session holds an
\* entry for every add_transcript_entry call that committed on it.
C6_NoLostUpdate ==
    AllIdle => \A i \in RowIndexes : Len(sessions[i].call_transcript) = appendsDone[i]

\* C7: every session has at most as many response_times entries as assistant
\* entries in its transcript.
C7_ResponseTimeBound ==
    \A i \in RowIndexes :
        Len(sessions[i].response_times) <= CountRole(sessions[i].call_transcript, "assistant")

\* C8: a speech turn whose confidence is below the threshold appends nothing, leaves
\* the stored session as it was, does not invoke the model adapter, and answers with
\* the request to repeat followed by a speech gather back to the turn webhook.
C8_ConfidenceGate ==
    ( TurnReturned /\ ParseFloat(returned.req.Confidence) < ConfidenceThreshold )
    => /\ returned.appended = 0
       /\ ~returned.invoked
       /\ returned.snap # NoRow => RowOf(returned.snap.id) = returned.snap
       /\ returned.outcome = "repeat"
       /\ returned.resp.doc
       /\ returned.resp.verbs[1] =
            Say("I didn't catch that clearly. Could you please repeat what you said?", "")
       /\ HasGatherTo(returned.resp.verbs, VoiceProcessAction(returned.agent, returned.snap))
C8_Witness ==
    /\ TurnReturned
    /\ returned.req.Confidence = "0.3"
    /\ returned.snap # NoRow
    /\ returned.snap.call_transcript # <<>>

C11_TurnAnswers ==
    \A p \in Seq1 : (proc[p].pc = "vp_model") ~> (proc[p].pc = "idle")

\* C12: a call-events delivery that passed the authentication check is always
\* answered with status 200 and a markup document or the empty acknowledgment,
\* whatever goes wrong while it is handled.
C12_CallEventsNeverRaises ==
    ( /\ returned.req.handler = "call-events"
      /\ returned.outcome # "error" )
    => /\ returned.resp.code = 200
       /\ returned.outcome = "handled"

WebhookHandlers == {"call-events", "voice-process", "voice-init", "call-end"}

\* The credentials that do not authenticate a delivery: a wrong provider signature,
\* no credential at all, an Authorization header that is not a bearer token.
FailingAuths == {"twilio_invalid", "none", "authz_bad"}

\* C13: a webhook delivery whose credential does not authenticate it is answered
\* with status 403, on each of the four webhook handlers.
C13_AuthFailure403 ==
    ( /\ returned.req.handler \in WebhookHandlers
      /\ returned.req.auth \in FailingAuths )
    => returned.resp.code = 403

\* C14: the step in which a webhook delivery with a failing credential is answered
\* leaves the session table as it was: no row added, no transcript or
\* response_times entry, no status, end_time or duration written.
C14_AuthFailureNoStateChange ==
    [][( /\ returned'.req.handler \in WebhookHandlers
         /\ returned'.req.auth \in FailingAuths )
       => sessions' = sessions]_vars
C14_Witness ==
    /\ returned.req.handler = "call-end"
    /\ returned.req.auth = "twilio_invalid"
    /\ returned.req.CallStatus = "completed"
    /\ RowsBySid(returned.req.CallSid) # {}
    /\ \A i \in RowsBySid(returned.req.CallSid) : sessions[i].status = "active"

\* C15: when a delivery with an accepted speech payload has been handled for a
\* provider call id that had no stored session, a session with that call id is
\* stored and its transcript holds the user utterance.
C15_LazyCreate ==
    ( /\ returned.req.handler \in {"call-events", "voice-process"}
      /\ returned.outcome \in {"handled", "reply", "fallback"}
      /\ returned.req.SpeechResult # ""
      /\ returned.req.CallSid # ""
      /\ returned.snap = NoRow )
    => \E i \in RowsBySid(returned.req.CallSid) :
          \E k \in 1..Len(sessions[i].call_transcript) :
              /\ sessions[i].call_transcript[k].role = "user"
              /\ sessions[i].call_transcript[k].content = returned.req.SpeechResult

\* C16: the step in which a handler's add_transcript_entry commits leaves the stored
\* row with exactly one more transcript entry than it had, the new entry last, and
\* with exactly one more response_times entry if a response time was given, else
\* with the same response_times.
C16_AppendExactlyOne ==
    [][\A p \in Procs :
          ( proc[p].pc \in {"vp_user", "vp_assistant"} /\ proc'[p] # proc[p] )
          => \A i \in RowIndexes :
                sessions[i].id = proc[p].obj.id =>
                    /\ Len(sessions'[i].call_transcript) = Len(sessions[i].call_transcript) + 1
                    /\ IsPrefix(sessions[i].call_transcript, sessions'[i].call_transcript)
                    /\ Len(sessions'[i].response_times) =
                         Len(sessions[i].response_times)
                           + (IF proc[p].pc = "vp_assistant" THEN 1 ELSE 0)]_vars

\* C17: add_transcript_entry called with an id no stored row has returns no session,
\* an outcome distinct from the updated session of a successful call, and leaves
\* every stored row as it was.
C17_UnknownSessionAppend ==
    [][( /\ returned'.req.handler = "add_transcript_entry"
         /\ RowsById(returned'.req.sessionId) = {} )
       => /\ returned'.outcome = "none"
          /\ returned'.outcome # "updated"
          /\ returned'.obj = NoRow
          /\ sessions' = sessions]_vars
C17_Witness ==
    /\ returned.req.handler = "add_transcript_entry"
    /\ RowsById(returned.req.sessionId) = {}
    /\ returned.outcome = "none"
    /\ sessions # <<>>

\* C18: a voice-init handled after a session is stored for its provider call id
\* adds no row and changes no stored row, and greets with that stored session as
\* the session of the gather.
C18_SecondGetOrCreate ==
    [][( /\ returned'.req.handler = "voice-init"
         /\ returned'.outcome = "greeting"
         /\ RowsBySid(returned'.req.CallSid) # {} )
       => /\ sessions' = sessions
          /\ returned'.obj \in { sessions[i] : i \in RowsBySid(returned'.req.CallSid) }
          /\ HasGatherTo(returned'.resp.verbs,
                         [path |-> "/voice/webhook/voice-process",
                          agentId |-> returned'.agent.id,
                          sessionId |-> returned'.obj.id])]_vars
C18_Witness ==
    /\ returned.req.handler = "voice-init"
    /\ returned.outcome = "greeting"
    /\ returned.obj # NoRow
    /\ returned.obj.from_number = "+15550009999"
    /\ returned.obj.start_time < now
    /\ Len(sessions) = 1

\* C19: the status of every stored session is one of active, completed, failed, busy.
C19_StatusSet ==
    \A i \in RowIndexes : sessions[i].status \in {"active"} \cup TerminalStatuses

\* C20: a call-events delivery with CallStatus initiated and no speech, whatever its
\* direction, is answered with the empty acknowledgment and leaves the session
\* stored for the call as it was.
C20_InitiatedAck ==
    ( /\ returned.req.handler = "call-events"
      /\ returned.outcome = "handled"
      /\ returned.req.CallStatus = "initiated"
      /\ returned.req.SpeechResult = "" )
    => /\ returned.resp = EmptyAck
       /\ returned.snap # NoRow => RowOf(returned.snap.id) = returned.snap

\* The agent id of the request names a stored agent.
AgentIdResolves(agentId) == \E a \in agents : a.id = agentId

\* C21: a call-events delivery without speech that is ringing with outbound
\* direction, or in progress, is answered, if its agent id names a stored agent, by
\* the greeting (the agent's fallback_response, or the default naming the agent)
\* followed by a speech gather with a 10 second timeout whose action carries that
\* agent's id; otherwise by markup that only speaks, in the default voice.
C21_GreetingDispatch ==
    ( /\ returned.req.handler = "call-events"
      /\ returned.outcome = "handled"
      /\ returned.req.SpeechResult = ""
      /\ \/ returned.req.CallStatus = "ringing" /\ returned.req.Direction = "outbound-api"
         \/ returned.req.CallStatus = "in-progress" )
    => LET v == returned.resp.verbs IN
       /\ returned.resp.code = 200
       /\ returned.resp.doc
       /\ IF AgentIdResolves(returned.req.agentId)
          THEN LET a == CHOOSE a \in agents : a.id = returned.req.agentId IN
               /\ Len(v) >= 2
               /\ v[1].verb = "Say"
               /\ v[1].text = IF a.fallback_response # "" THEN a.fallback_response
                              ELSE "Hello! This is " \o a.name
                                   \o " speaking. How can I help you today?"
               /\ v[2].verb = "Gather"
               /\ v[2].timeout = 10
               /\ v[2].action.path = "/api/v1/voice/webhook/call-events"
               /\ v[2].action.agentId = a.id
          ELSE /\ v # <<>>
               /\ \A i \in 1..Len(v) : v[i].verb = "Say" /\ v[i].voice = ""
C21_Witness ==
    /\ returned.req.handler = "call-events"
    /\ returned.outcome = "handled"
    /\ returned.req.CallStatus = "ringing"
    /\ returned.req.Direction = "outbound-api"
    /\ returned.req.agentId = "A2"
    /\ returned.resp.verbs[1].text = "Hi, Bo here."

\* C22: a successful initiate_call leaves a stored session with status active, the
\* agent's id, the caller's user and tenant ids and the provider's call id, and its
\* response carries callId = "call_" + the last 8 characters of the provider call id,
\* the provider call id, and the id of the stored session.
C22_InitiateSuccess ==
    ( /\ returned.req.handler = "initiate"
      /\ returned.outcome = "initiated" )
    => LET body == returned.resp.body
           sid == returned.req.CallSid
       IN /\ sid \in placed
          /\ \E i \in RowsBySid(sid) :
                /\ sessions[i].status = "active"
                /\ sessions[i].agent_id = returned.req.agentId
                /\ sessions[i].user_id = returned.req.userId
                /\ sessions[i].tenant_id = "T1"
                /\ body.callId = "call_7d41c9e2"
                /\ body.twilioCallSid = sid
                /\ "callSessionId" \in DOMAIN body
                /\ body.callSessionId = sessions[i].id

\* C23: initiate_call with a destination number that is empty or does not start
\* with "+" is answered with status 400, places no call and stores no session.
C23_InvalidNumber400 ==
    ( /\ returned.req.handler = "initiate"
      /\ returned.req.To \in {"", "5551234567"} )
    => /\ returned.resp.code = 400
       /\ returned.req.CallSid = ""
       /\ returned.obj = NoRow

\* C24: initiate_call with an agent id that is malformed, not stored, or stored
\* under another tenant than the caller's is answered with status 404, places no
\* call and stores no session.
C24_AgentNotFound404 ==
    ( /\ returned.req.handler = "initiate"
      /\ ~\E a \in agents : a.id = returned.req.agentId /\ a.tenant_id = "T1" )
    => /\ returned.resp.code = 404
       /\ returned.req.CallSid = ""
       /\ returned.obj = NoRow

\* C25: a get or stats query for an id no stored session has is answered 404; for
\* a stored session of another tenant or another user it is answered 403 with no
\* session data; otherwise 200; and a list query returns only sessions of the
\* requester's tenant and user, all of them when no status filter is given.
C25_ReadSideAccess ==
    /\ returned.req.handler \in {"get-session", "get-stats"} =>
          IF RowsById(returned.req.sessionId) = {}
          THEN returned.resp.code = 404 /\ returned.resp.body = NoBody
          ELSE LET row == RowOf(returned.req.sessionId) IN
               IF row.tenant_id # returned.req.tenant \/ row.user_id # returned.req.userId
               THEN returned.resp.code = 403 /\ returned.resp.body = NoBody
               ELSE returned.resp.code = 200 /\ returned.resp.body # NoBody
    /\ returned.req.handler = "list-sessions" =>
          LET listed == returned.resp.body.sessions IN
          /\ \A k \in 1..Len(listed) :
                /\ listed[k].tenant_id = returned.req.tenant
                /\ listed[k].user_id = returned.req.userId
          /\ returned.req.CallStatus = "" =>
                \A i \in RowIndexes :
                    ( sessions[i].tenant_id = returned.req.tenant
                      /\ sessions[i].user_id = returned.req.userId )
                    => \E k \in 1..Len(listed) : listed[k] = sessions[i]
C25_Witness ==
    /\ returned.req.handler = "get-session"
    /\ returned.resp.code = 403
    /\ RowsById(returned.req.sessionId) # {}
    /\ RowOf(returned.req.sessionId).call_transcript # <<>>

\* C26: a voice-process, voice-init or call-events delivery that is handled with an
\* agent id that is absent, malformed or not stored is answered with status 200 and
\* markup (or the empty acknowledgment), appends nothing and does not invoke the
\* model adapter.
C26_UnknownAgentDegrades ==
    ( /\ returned.req.handler \in {"voice-process", "voice-init", "call-events"}
      /\ returned.outcome \notin {"error", "raised"}
      /\ ~AgentIdResolves(returned.req.agentId) )
    => /\ returned.resp.code = 200
       /\ returned.resp.doc \/ returned.resp = EmptyAck
       /\ returned.appended = 0
       /\ ~returned.invoked

\* C27: an agent get, update or delete for an agent stored under another tenant
\* than the requester's current tenant is answered 403 (and the agent stays as it
\* is, which the precondition read after the request expresses).
C27_AgentTenantMismatch403 ==
    ( /\ returned.req.handler \in {"agent-get", "agent-update", "agent-delete"}
      /\ \E a \in agents : a.id = returned.req.agentId /\ a.tenant_id # returned.req.tenant )
    => returned.resp.code = 403

\* C28: a speech turn on a stored session with non-empty speech and confidence 0.5
\* or more is processed: a user entry is appended and the model adapter is invoked.
C28_GateBoundary ==
    ( /\ TurnReturned
      /\ returned.snap # NoRow
      /\ ParseFloat(returned.req.Confidence) >= 50 )
    => /\ returned.appended >= 1
       /\ returned.invoked

\* C29: the history passed to the model adapter for a turn on a stored session is
\* the last 6 entries the transcript had before the turn's user entry, as
\* {role, content} in order; the new utterance is not in it.
C29_HistoryWindow ==
    ( /\ TurnReturned
      /\ returned.invoked
      /\ returned.snap # NoRow )
    => LET before == returned.snap.call_transcript
           recent == IF Len(before) <= 6 THEN before
                     ELSE SubSeq(before, Len(before) - 5, Len(before))
       IN returned.history =
            [i \in 1..Len(recent) |-> [role |-> recent[i].role, content |-> recent[i].content]]

\* C30: every call-events webhook handled for a call placed by initiate_call finds
\* the session of that call stored, and at no time are two sessions stored for such
\* a call.
C30_SessionReadyForWebhook ==
    /\ ( /\ returned.req.handler = "call-events"
         /\ returned.outcome = "handled"
         /\ returned.req.CallSid \in OutboundSids )
       => returned.snap # NoRow
    /\ \A sid \in OutboundSids : Cardinality(RowsBySid(sid)) <= 1

\* C31: a call-events delivery with a non-empty speech payload that is handled is
\* answered by the speech branch (the reply to the utterance, then a gather back to
\* call-events, then the no-input line) whatever its status and direction, never by
\* the acknowledgment or the greeting of a status rule, and the stored session is
\* left as it was.
C31_SpeechFirst ==
    ( /\ returned.req.handler = "call-events"
      /\ returned.outcome = "handled"
      /\ returned.req.SpeechResult # "" )
    => LET v == returned.resp.verbs IN
       /\ returned.resp.code = 200
       /\ returned.resp.doc
       /\ Len(v) = 3
       /\ v[1].verb = "Say"
       /\ v[1].text = IF AgentIdResolves(returned.req.agentId)
                      THEN "I'm here to help! What specific assistance do you need?"
                      ELSE "I heard you say: " \o returned.req.SpeechResult
                           \o ". How can I help you further?"
       /\ v[2].verb = "Gather"
       /\ v[2].text = "Please tell me more about how I can help you."
       /\ v[2].action.path = "/api/v1/voice/webhook/call-events"
       /\ v[3].verb = "Say"
       /\ returned.snap # NoRow => RowOf(returned.snap.id) = returned.snap
C31_Witness ==
    /\ returned.req.handler = "call-events"
    /\ returned.outcome = "handled"
    /\ returned.req.SpeechResult # ""
    /\ returned.req.CallStatus = "completed"
    /\ returned.req.Direction = "inbound"
    /\ returned.snap # NoRow

\* C32: in every state, also after appends of two workers to the same session, the
\* timestamps of each stored transcript are non-decreasing in sequence order.
C32_TimestampsMonotone ==
    \A i \in RowIndexes :
        LET t == sessions[i].call_transcript IN
        \A k \in 1..(Len(t) - 1) : t[k].timestamp <= t[k + 1].timestamp
C32_Witness ==
    \E i \in RowIndexes :
        LET t == sessions[i].call_transcript IN
        /\ Len(t) >= 2
        /\ t[1].timestamp < t[Len(t)].timestamp
        /\ appendsDone[i] > Len(t)

\* C33: no step changes the id, user, agent, tenant, provider call id, from and to
\* numbers or start time of a stored session, and no step removes a stored session.
C33_ImmutableFields ==
    [][/\ Len(sessions') >= Len(sessions)
       /\ \A i \in RowIndexes :
             /\ sessions'[i].id = sessions[i].id
             /\ sessions'[i].user_id = sessions[i].user_id
             /\ sessions'[i].agent_id = sessions[i].agent_id
             /\ sessions'[i].tenant_id = sessions[i].tenant_id
             /\ sessions'[i].twilio_call_sid = sessions[i].twilio_call_sid
             /\ sessions'[i].from_number = sessions[i].from_number
             /\ sessions'[i].to_number = sessions[i].to_number
             /\ sessions'[i].start_time = sessions[i].start_time]_vars
C33_Witness ==
    \E i \in RowIndexes :
        /\ sessions[i].status = "completed"
        /\ sessions[i].start_time < sessions[i].end_time
        /\ sessions[i].call_transcript # <<>>

\* The voice the fixed table gives: the two provider voices for male and female,
\* the provider default voice for every other voice type.
FixedVoice(voice_type) ==
    CASE voice_type = "male"   -> "en-US-Neural2-F"
      [] voice_type = "female" -> "en-US-Neural2-E"
      [] OTHER                 -> ""

\* C34: every markup document built for a resolved agent (greeting, turn reply,
\* fallback, repeat prompt) speaks each of its verbs in the voice the fixed table
\* gives for the agent's voice type.
C34_OneVoiceTable ==
    ( /\ returned.req.handler \in {"call-events", "voice-init", "voice-process"}
      /\ returned.agent # NoAgent
      /\ returned.outcome \notin {"error", "raised"}
      /\ returned.resp.doc )
    => \A k \in 1..Len(returned.resp.verbs) :
          returned.resp.verbs[k].voice = FixedVoice(returned.agent.voice_type)

\* C35: no step changes the transcript or the response_times of a session whose
\* status is completed, failed or busy.
C35_TerminalFrozen ==
    [][\A i \in RowIndexes :
          sessions[i].status \in TerminalStatuses =>
              /\ sessions'[i].call_transcript = sessions[i].call_transcript
              /\ sessions'[i].response_times = sessions[i].response_times]_vars

\* C36: when initiate_call has finished for a call the provider accepted, with a
\* success or with an error, a session is stored for that provider call id.
C36_InitiateAllOrNothing ==
    ( /\ returned.req.handler = "initiate"
      /\ returned.req.CallSid \in placed )
    => RowsBySid(returned.req.CallSid) # {}

\* C37: a speech turn that appended to a session or invoked the model adapter did
\* so with an agent of the session's tenant.
C37_AgentOfSessionTenant ==
    ( /\ TurnReturned
      /\ returned.snap # NoRow
      /\ returned.appended > 0 \/ returned.invoked )
    => returned.agent.tenant_id = returned.snap.tenant_id

\* C38: the step of an add_transcript_entry call leaves the status, end_time and
\* duration of every session as they were; the step of a status update leaves every
\* transcript and response_times as they were; and each leaves every session other
\* than the one it was given unchanged.
C38_DisjointMutators ==
    [][/\ returned'.req.handler = "add_transcript_entry" =>
             \A i \in RowIndexes :
                 /\ sessions'[i].status = sessions[i].status
                 /\ sessions'[i].end_time = sessions[i].end_time
                 /\ sessions'[i].duration = sessions[i].duration
                 /\ sessions[i].id # returned'.req.sessionId => sessions'[i] = sessions[i]
       /\ returned'.req.handler = "call-end" =>
             \A i \in RowIndexes :
                 /\ sessions'[i].call_transcript = sessions[i].call_transcript
                 /\ sessions'[i].response_times = sessions[i].response_times
                 /\ sessions[i].id # returned'.snap.id => sessions'[i] = sessions[i]]_vars
C38_Witness ==
    /\ returned.req.handler = "call-end"
    /\ returned.snap # NoRow
    /\ returned.snap.status = "active"
    /\ RowOf(returned.snap.id).status = "completed"
    /\ Len(sessions) = 2

\* C39: in the agent manager, an agent is busy with current_call c exactly when the
\* assignment map gives call c to that agent; so an available agent has no call
\* assigned and every assigned call is the current_call of its agent.
C39_ManagerConsistent ==
    LET st == get_agent_status IN
    /\ \A a \in DOMAIN st.agents, c \in ManagerCallSids :
          ( st.agents[a].status = "busy" /\ st.agents[a].current_call = c )
          <=> ( c \in DOMAIN st.call_assignments /\ st.call_assignments[c] = a )
    /\ \A a \in DOMAIN st.agents :
          st.agents[a].status = "available" =>
              ~\E c \in DOMAIN st.call_assignments : st.call_assignments[c] = a
    /\ \A c \in DOMAIN st.call_assignments :
          /\ st.call_assignments[c] \in DOMAIN st.agents
          /\ st.agents[st.call_assignments[c]].current_call = c

====
